---- MODULE Spec2Model ----
(***************************************************************************)
(* Model of api_download_proposal_id.py: the interactive session           *)
(* (start_proposal_id_check, proposal_id_query, download_latest_obs) and   *)
(* the threaded download engine (launch_mast_download,                     *)
(* download_single_file).                                                  *)
(*                                                                         *)
(* Text typed by the operator is a sequence of one-character strings.      *)
(* A byte total is a record [hi, lo] standing for hi * 10^6 + lo, because  *)
(* the totals of interest (around 10^12) exceed TLC's 32-bit integers.     *)
(* A start time t_min is kept in tenths of a day (59010.2 is 590102); the  *)
(* conversion float() keeps the order of such values.                      *)
(***************************************************************************)
EXTENDS Integers, Sequences, FiniteSets, TLC

VARIABLES pc, depth, propid, count, lastPrompt, lastInput, sentNow, msg,
          data_entries, latest_entry, obsProducts, download_size, n,
          size_line, th, dirs, files, preexisting, report

vars == <<pc, depth, propid, count, lastPrompt, lastInput, sentNow, msg,
          data_entries, latest_entry, obsProducts, download_size, n,
          size_line, th, dirs, files, preexisting, report>>

(***************************************************************************)
(* Bounds of the exploration.                                              *)
(***************************************************************************)
\* pending activations of start_proposal_id_check explored per session
MaxDepth == 3
\* rows of a full-query response
MaxRecs == 3
\* rows of a products response in the session
MaxProducts == 2
\* rows of a products list handed to the download engine on its own
MaxRows == 2

(***************************************************************************)
(* Program constants.                                                      *)
(***************************************************************************)
_TELESCOPE == "JWST"
\* the upper limit of an acceptable count (line 80)
CountLimit == 50000
\* JSON null
None == -1
\* 10^6, the weight of the hi part of a byte total
Million == 1000000

(***************************************************************************)
(* Operator text.                                                          *)
(***************************************************************************)
Digits == {"0", "1", "2", "3", "4", "5", "6", "7", "8", "9"}

\* str.lower() on the letters the model uses
LowerChar(c) ==
    CASE c = "Q" -> "q"
      [] c = "Y" -> "y"
      [] c = "N" -> "n"
      [] OTHER -> c

Lower(s) == [i \in DOMAIN s |-> LowerChar(s[i])]

RECURSIVE LStrip(_)
LStrip(s) == IF Len(s) > 0 /\ Head(s) = " " THEN LStrip(Tail(s)) ELSE s

RECURSIVE RStrip(_)
RStrip(s) ==
    IF Len(s) > 0 /\ s[Len(s)] = " "
    THEN RStrip(SubSeq(s, 1, Len(s) - 1))
    ELSE s

\* the digits part of an integer literal: digits, single underscores between
DigitsBody(b) ==
    /\ Len(b) > 0
    /\ b[1] \in Digits
    /\ b[Len(b)] \in Digits
    /\ \A i \in DOMAIN b : b[i] \in Digits \cup {"_"}
    /\ \A i \in 1..(Len(b) - 1) : ~(b[i] = "_" /\ b[i + 1] = "_")

IntParses_any(s) == TRUE

\* int(proposal_id) does not raise ValueError: surrounding blanks, one
\* optional sign, then digits
IntParses(s) ==
    LET t == RStrip(LStrip(s))
        b == IF Len(t) > 0 /\ t[1] \in {"+", "-"} THEN Tail(t) ELSE t
    IN  DigitsBody(b)

IsQuit(s) == Lower(s) = <<"q">>

IsYes(s) == Lower(s) = <<"y">>

(***************************************************************************)
(* The count loop of start_proposal_id_check.                              *)
(***************************************************************************)
CountRejected_nozero(c) == c > CountLimit

\* the condition of the while loop at line 80
CountRejected(c) == c > CountLimit \/ c = 0

RetryMessage(c) ==
    IF c = 0 THEN "no_files"
    ELSE IF c > CountLimit THEN "too_many" ELSE "none"

(***************************************************************************)
(* Requests.                                                               *)
(***************************************************************************)
\* the mashup request of proposal_id_query; arg is the proposal id
FilteredRequest(proposal_id, countFlag) ==
    [service |-> "Mast.Caom.Filtered",
     columns |-> IF countFlag THEN "COUNT_BIG(*)" ELSE "*",
     collection |-> _TELESCOPE,
     arg |-> proposal_id]

\* the products request of download_latest_obs; arg is str(obsid)
ProductRequest(obsid) ==
    [service |-> "Mast.Caom.Products",
     columns |-> "none",
     collection |-> "none",
     arg |-> <<obsid>>]

(***************************************************************************)
(* Selection of the latest observation.                                    *)
(***************************************************************************)
NoEntry == [obsid |-> 0, t_min |-> None]

RECURSIVE Times(_)
\* times = [float(e['t_min']) for e in data_entries if e['t_min'] is not None]
Times(entries) ==
    IF Len(entries) = 0 THEN <<>>
    ELSE IF Head(entries).t_min = None THEN Times(Tail(entries))
    ELSE <<Head(entries).t_min>> \o Times(Tail(entries))

\* max(times), for a non-empty list
MaxOf(ts) == CHOOSE m \in {ts[i] : i \in DOMAIN ts} :
                 \A i \in DOMAIN ts : ts[i] <= m

\* times.index(v): the first position holding v (positions from 1)
IndexOf(ts, v) == CHOOSE i \in DOMAIN ts :
                      ts[i] = v /\ \A j \in 1..(i - 1) : ts[j] # v

NoTimes_never(ts) == FALSE

\* the test len(times) == 0 at line 215
NoTimes(ts) == Len(ts) = 0

\* latest = times.index(max(times)); latest_entry = data_entries[latest]
\* the position in the filtered list is used on the unfiltered list
LatestEntry(entries) == entries[IndexOf(Times(entries), MaxOf(Times(entries)))]

(***************************************************************************)
(* Byte totals and the display-size reduction (lines 246-266).             *)
(***************************************************************************)
Big(h, l) == [hi |-> h, lo |-> l]

\* a + b on totals
BigAdd(a, b) ==
    [hi |-> a.hi + b.hi + ((a.lo + b.lo) \div Million),
     lo |-> (a.lo + b.lo) % Million]

\* a < b on totals
BigLess(a, b) == a.hi < b.hi \/ (a.hi = b.hi /\ a.lo < b.lo)

RECURSIVE SumSizes(_)
\* sum(f['size'] for f in obsProducts['data'])
SumSizes(products) ==
    IF Len(products) = 0 THEN Big(0, 0)
    ELSE BigAdd(Head(products).size, SumSizes(Tail(products)))

\* int(download_size / 1000): the quotient is exact for the totals modelled
DivThousand(x) ==
    [hi |-> x.hi \div 1000,
     lo |-> (x.hi % 1000) * 1000 + (x.lo \div 1000)]

RECURSIVE NatDigits(_)
NatDigits(k) == IF k < 10 THEN 1 ELSE 1 + NatDigits(k \div 10)

\* len(str(download_size))
StrLen(x) == IF x.hi > 0 THEN 6 + NatDigits(x.hi) ELSE NatDigits(x.lo)

LoopContinues_four(x) == StrLen(x) > 4

\* the condition of the while loop at line 252
LoopContinues(x) == StrLen(x) > 3

RECURSIVE ReduceLoop(_, _)
\* the while loop of lines 252-254, run to its end
ReduceLoop(x, k) ==
    IF LoopContinues(x) THEN ReduceLoop(DivThousand(x), k + 1)
    ELSE [value |-> x, n |-> k]

\* lines 250-254
Reduce(total) == ReduceLoop(DivThousand(total), 0)

SizeOverflow_late(k) == k > 3

\* the else branch of lines 256-264
SizeOverflow(k) == k # 0 /\ k # 1 /\ k # 2

UnitLabel_shift(k) ==
    CASE k = 0 -> "MB"
      [] k = 1 -> "GB"
      [] k = 2 -> "TB"
      [] OTHER -> "unbound"

\* the unit chosen at lines 256-261; no unit is bound on the else branch
UnitLabel(k) ==
    CASE k = 0 -> "kb"
      [] k = 1 -> "MB"
      [] k = 2 -> "GB"
      [] OTHER -> "unbound"

NoSizeLine == [value |-> Big(0, 0), unit |-> "none"]

NoReport == [numfiles |-> -1, files_found |-> -1]

(***************************************************************************)
(* The local file tree under mastFiles.                                    *)
(***************************************************************************)
\* os.path.join("mastFiles", row['obs_collection'], row['obs_id'])
OutDir(row) == <<row.obs_collection, row.obs_id>>

OutFile_noname(row) == <<row.obs_collection, row.obs_id, "file">>

\* os.path.join("mastFiles", obs_collection, obs_id, productFilename)
OutFile(row) == <<row.obs_collection, row.obs_id, row.productFilename>>

\* os.listdir(d), given the paths that exist
ListDir(d, paths) == {p \in paths : <<p[1], p[2]>> = d}

\* the tree after path holds content c
WithFile(fs, path, c) ==
    [p \in (DOMAIN fs) \cup {path} |-> IF p = path THEN c ELSE fs[p]]

NoFiles == [p \in {} |-> "empty"]

(***************************************************************************)
(* What the operator types and what the remote service answers.            *)
(***************************************************************************)
Seqs(S, k) == UNION {[1..m -> S] : m \in 0..k}

Id1234 == <<"1", "2", "3", "4">>

Id99999999 == <<"9", "9", "9", "9", "9", "9", "9", "9">>

ProposalIds ==
    {Id1234, Id99999999, <<"q">>, <<"Q">>, <<>>, <<"a", "b", "c">>,
     <<"1", "2", "a">>, <<" ", "q">>, <<"1", "_", "_", "0">>, <<"-">>}

Counts == {0, 1, CountLimit, CountLimit + 1}

Answers == {<<"y">>, <<"Y">>, <<"n">>}

TMins == {None, 590005, 590102}

\* the rows of a full-query response; the service gives each row its obsid
RecordsOf(ts) == [i \in DOMAIN ts |-> [obsid |-> i, t_min |-> ts[i]]]

RecordLists == {RecordsOf(ts) : ts \in Seqs(TMins, MaxRecs)}

Row(coll, obs, name, uri, sz) ==
    [obs_collection |-> coll, obs_id |-> obs, productFilename |-> name,
     dataURI |-> uri, size |-> sz]

SessionRows ==
    {Row("JWST", "o1", "f1", "u1", Big(0, 460000)),
     Row("JWST", "o2", "f2", "u2", Big(0, 460000)),
     Row("JWST", "o1", "f3", "u3", Big(Million, 0))}

SessionProductLists == Seqs(SessionRows, MaxProducts)

NoTree == [dirs |-> {}, files |-> NoFiles]

UsedTree ==
    [dirs |-> {<<"JWST", "o1">>},
     files |-> [p \in {<<"JWST", "o1", "other">>} |-> "old"]]

SessionTrees == {NoTree, UsedTree}

AllFaults == {"fetch", "open", "write"}

(***************************************************************************)
(* The session.                                                            *)
(***************************************************************************)
InitSession(trees) ==
    /\ pc = "AwaitingProposalId"
    /\ depth = 1
    /\ propid = <<>>
    /\ count = None
    /\ lastPrompt = "none"
    /\ lastInput = <<>>
    /\ sentNow = <<>>
    /\ msg = "none"
    /\ data_entries = <<>>
    /\ latest_entry = NoEntry
    /\ obsProducts = <<>>
    /\ download_size = Big(0, 0)
    /\ n = 0
    /\ size_line = NoSizeLine
    /\ th = <<>>
    /\ preexisting = {}
    /\ report = NoReport
    /\ \E t \in trees : dirs = t.dirs /\ files = t.files

Init == InitSession(SessionTrees)

\* a call of start_proposal_id_check from a pending activation; none of
\* these calls returns, every path below it ends in another such call or
\* in quit()
Restart ==
    /\ depth < MaxDepth
    /\ depth' = depth + 1
    /\ pc' = "AwaitingProposalId"

\* the locals of a cycle, not yet bound when a proposal id is read
ClearCycle ==
    /\ data_entries' = <<>>
    /\ latest_entry' = NoEntry
    /\ obsProducts' = <<>>
    /\ download_size' = Big(0, 0)
    /\ n' = 0
    /\ size_line' = NoSizeLine
    /\ th' = <<>>
    /\ preexisting' = {}
    /\ report' = NoReport

KeepCycle ==
    UNCHANGED <<data_entries, latest_entry, obsProducts, download_size, n,
                size_line, th, preexisting, report>>

\* lines 74-88 with proposal_id_query in count mode: one proposal id is
\* read at the prompt named by pc and handled up to the next prompt
ProposalIdEntered(prompt, ids, counts) ==
    /\ pc = prompt
    /\ \E id \in ids :
        /\ lastPrompt' = prompt
        /\ lastInput' = id
        /\ propid' = id
        /\ \/ /\ IsQuit(id)
              /\ pc' = "Terminated"
              /\ count' = IF prompt = "AwaitingProposalId" THEN None ELSE count
              /\ sentNow' = <<>>
              /\ msg' = "none"
              /\ UNCHANGED depth
           \/ /\ ~IsQuit(id)
              /\ ~IntParses(id)
              /\ msg' = "not_integer"
              /\ count' = IF prompt = "AwaitingProposalId" THEN None ELSE count
              /\ sentNow' = <<>>
              /\ Restart
           \/ /\ ~IsQuit(id)
              /\ IntParses(id)
              /\ \E c \in counts :
                  /\ sentNow' = <<FilteredRequest(id, TRUE)>>
                  /\ count' = c
                  /\ msg' = IF CountRejected(c) THEN RetryMessage(c) ELSE "none"
                  /\ pc' = IF CountRejected(c) THEN "RetryPrompt"
                           ELSE "AwaitingInspectConfirm"
              /\ UNCHANGED depth
    /\ ClearCycle
    /\ UNCHANGED <<dirs, files>>

\* lines 91-100 and download_latest_obs up to its prompt at line 271.
\* propid passed the checks of lines 117-123 when it was entered, so they
\* pass again for the full query.
InspectAnswered(answers, recordLists, productLists) ==
    /\ pc = "AwaitingInspectConfirm"
    /\ \E r \in answers :
        /\ lastPrompt' = "AwaitingInspectConfirm"
        /\ lastInput' = r
        /\ \/ /\ ~IsYes(r)
              /\ sentNow' = <<>>
              /\ msg' = "none"
              /\ Restart
              /\ KeepCycle
           \/ /\ IsYes(r)
              /\ \E data \in recordLists :
                  LET ts == Times(data)
                      entry == IF Len(ts) = 0 THEN NoEntry ELSE LatestEntry(data)
                      full == FilteredRequest(propid, FALSE)
                  IN
                  /\ data_entries' = data
                  /\ \/ /\ NoTimes(ts)
                        /\ msg' = "no_timing"
                        /\ sentNow' = <<full>>
                        /\ Restart
                        /\ UNCHANGED <<latest_entry, obsProducts,
                                       download_size, n, size_line>>
                     \/ \* max() of no times, or Time() of a null t_min, raises
                        /\ ~NoTimes(ts)
                        /\ entry.t_min = None
                        /\ latest_entry' = entry
                        /\ msg' = "fault"
                        /\ sentNow' = <<full>>
                        /\ pc' = "Fault"
                        /\ UNCHANGED <<depth, obsProducts, download_size, n,
                                       size_line>>
                     \/ /\ ~NoTimes(ts)
                        /\ entry.t_min # None
                        /\ latest_entry' = entry
                        /\ sentNow' = <<full, ProductRequest(entry.obsid)>>
                        /\ \E products \in productLists :
                            LET red == Reduce(SumSizes(products)) IN
                            /\ obsProducts' = products
                            /\ download_size' = red.value
                            /\ n' = red.n
                            /\ \/ /\ SizeOverflow(red.n)
                                  /\ msg' = "too_large"
                                  /\ size_line' = NoSizeLine
                                  /\ Restart
                               \/ /\ ~SizeOverflow(red.n)
                                  /\ msg' = "none"
                                  /\ size_line' = [value |-> red.value,
                                                   unit |-> UnitLabel(red.n)]
                                  /\ pc' = "AwaitingDownloadConfirm"
                                  /\ UNCHANGED depth
              /\ UNCHANGED <<th, preexisting, report>>
    /\ UNCHANGED <<propid, count, dirs, files>>

\* a thread of launch_mast_download: where it is, the exception that ended
\* it, and the per-file line it printed
Thread(at, exc, line) == [at |-> at, exc |-> exc, line |-> line]

Started == Thread("started", "none", "none")

\* lines 271-277 and launch_mast_download up to the start of its threads.
\* The rows of the full query are not read after line 222; the model lets
\* go of them here.
DownloadAnswered(answers) ==
    /\ pc = "AwaitingDownloadConfirm"
    /\ \E r \in answers :
        /\ lastPrompt' = "AwaitingDownloadConfirm"
        /\ lastInput' = r
        /\ \/ /\ ~IsYes(r)
              /\ pc' = "AwaitingRepeatConfirm"
              /\ msg' = "none"
              /\ UNCHANGED <<th, dirs, preexisting>>
           \/ \* scienceProducts[0] of an empty list raises IndexError
              /\ IsYes(r)
              /\ Len(obsProducts) = 0
              /\ pc' = "Fault"
              /\ msg' = "fault"
              /\ UNCHANGED <<th, dirs, preexisting>>
           \/ /\ IsYes(r)
              /\ Len(obsProducts) > 0
              /\ dirs' = dirs \cup {OutDir(obsProducts[1])}
              /\ th' = [w \in DOMAIN obsProducts |-> Started]
              /\ preexisting' = DOMAIN files
              /\ pc' = "Downloading"
              /\ msg' = "launched"
    /\ sentNow' = <<>>
    /\ data_entries' = <<>>
    /\ UNCHANGED <<depth, propid, count, latest_entry, obsProducts,
                   download_size, n, size_line, files, report>>

\* download_single_file, lines 332-349: the fetch and the open of outfile.
\* An exception ends the thread; nothing of lines 353-356 is printed then.
WorkerOpens(w, faults) ==
    /\ pc = "Downloading"
    /\ w \in DOMAIN th
    /\ th[w].at = "started"
    /\ LET row == obsProducts[w] IN
       \/ /\ "fetch" \in faults
          /\ th' = [th EXCEPT ![w] = Thread("raised", "fetch", "none")]
          /\ UNCHANGED files
       \/ \* open() of a path whose directory is missing raises
          /\ OutDir(row) \notin dirs
          /\ th' = [th EXCEPT ![w] = Thread("raised", "nodir", "none")]
          /\ UNCHANGED files
       \/ /\ OutDir(row) \in dirs
          /\ "open" \in faults
          /\ th' = [th EXCEPT ![w] = Thread("raised", "open", "none")]
          /\ UNCHANGED files
       \/ /\ OutDir(row) \in dirs
          /\ files' = WithFile(files, OutFile(row), "empty")
          /\ th' = [th EXCEPT ![w] = Thread("opened", "none", "none")]
    /\ UNCHANGED <<pc, depth, propid, count, lastPrompt, lastInput, sentNow,
                   msg, data_entries, latest_entry, obsProducts,
                   download_size, n, size_line, dirs, preexisting, report>>

\* what a write of body leaves in a file opened for writing by this worker:
\* bytes another worker wrote since the open are overlaid, not removed
Written(old, body) == IF old = "empty" THEN {body} ELSE {body, "mixed"}

\* the line printed at lines 353-356
FileLine(path, paths) == IF path \in paths THEN "COMPLETE" ELSE "ERROR"

\* download_single_file, lines 350-358: the write and the isfile check
WorkerWrites(w, faults) ==
    /\ pc = "Downloading"
    /\ w \in DOMAIN th
    /\ th[w].at = "opened"
    /\ LET row == obsProducts[w]
           path == OutFile(row)
       IN
       \/ /\ "write" \in faults
          /\ files' = WithFile(files, path, "partial")
          /\ th' = [th EXCEPT ![w] = Thread("raised", "write", "none")]
       \/ /\ \E c \in Written(files[path], row.dataURI) :
                files' = WithFile(files, path, c)
          /\ th' = [th EXCEPT ![w] =
                       Thread("ended", "none", FileLine(path, DOMAIN files'))]
    /\ UNCHANGED <<pc, depth, propid, count, lastPrompt, lastInput, sentNow,
                   msg, data_entries, latest_entry, obsProducts,
                   download_size, n, size_line, dirs, preexisting, report>>

Running_raised(t) ==
    {w \in DOMAIN t : t[w].at \in {"started", "opened", "raised"}}

Running_none(t) == {}

\* the threads a join still waits for
Running(t) == {w \in DOMAIN t : t[w].at \in {"started", "opened"}}

Joined_counting ==
    /\ pc = "Downloading"
    /\ Running(th) = {}
    /\ report' = [numfiles |->
                      Cardinality({w \in DOMAIN th : th[w].line = "COMPLETE"}),
                  files_found |-> Len(obsProducts)]
    /\ msg' = "downloaded"
    /\ pc' = "AwaitingRepeatConfirm"
    /\ sentNow' = <<>>
    /\ UNCHANGED <<depth, propid, count, lastPrompt, lastInput, data_entries,
                   latest_entry, obsProducts, download_size, n, size_line,
                   th, dirs, files, preexisting>>

\* launch_mast_download, lines 316-321, and the report of lines 278-281
Joined ==
    /\ pc = "Downloading"
    /\ Running(th) = {}
    /\ report' = [numfiles |->
                      Cardinality(ListDir(OutDir(obsProducts[1]), DOMAIN files)),
                  files_found |-> Len(obsProducts)]
    /\ msg' = "downloaded"
    /\ pc' = "AwaitingRepeatConfirm"
    /\ sentNow' = <<>>
    /\ UNCHANGED <<depth, propid, count, lastPrompt, lastInput, data_entries,
                   latest_entry, obsProducts, download_size, n, size_line,
                   th, dirs, files, preexisting>>

\* lines 283-287
RepeatAnswered(answers) ==
    /\ pc = "AwaitingRepeatConfirm"
    /\ \E r \in answers :
        /\ lastPrompt' = "AwaitingRepeatConfirm"
        /\ lastInput' = r
        /\ \/ /\ IsYes(r)
              /\ Restart
           \/ /\ ~IsYes(r)
              /\ pc' = "Terminated"
              /\ UNCHANGED depth
    /\ sentNow' = <<>>
    /\ msg' = "none"
    /\ UNCHANGED <<propid, count, data_entries, latest_entry, obsProducts,
                   download_size, n, size_line, th, dirs, files, preexisting,
                   report>>

EnterProposalId == ProposalIdEntered("AwaitingProposalId", ProposalIds, Counts)

RetryProposalId == ProposalIdEntered("RetryPrompt", ProposalIds, Counts)

AnswerInspect == InspectAnswered(Answers, RecordLists, SessionProductLists)

AnswerDownload == DownloadAnswered(Answers)

WorkerOpen == \E w \in 1..MaxProducts : WorkerOpens(w, AllFaults)

WorkerWrite == \E w \in 1..MaxProducts : WorkerWrites(w, AllFaults)

AnswerRepeat == RepeatAnswered(Answers)

Next ==
    \/ EnterProposalId
    \/ RetryProposalId
    \/ AnswerInspect
    \/ AnswerDownload
    \/ WorkerOpen
    \/ WorkerWrite
    \/ Joined
    \/ AnswerRepeat

Spec == Init /\ [][Next]_vars

(***************************************************************************)
(* The display-size reduction on its own, one loop iteration per step      *)
(* (lines 246-270), from the state in which the products have arrived.     *)
(***************************************************************************)
HiParts == {0, 1, 999, 1000, 999000, 999999, Million, Million + 1,
            999999999, 1000000000}

LoParts == {0, 1, 999, 1000, 999999}

Totals == {Big(h, l) : h \in HiParts, l \in LoParts}

SizeProductLists ==
    {<<Row("JWST", "o1", "f1", "u1", t)>> : t \in Totals}

\* the state at line 246 for the products list ps
AtProducts(ps, tree) ==
    /\ depth = 1
    /\ propid = Id1234
    /\ count = 1
    /\ lastPrompt = "AwaitingInspectConfirm"
    /\ lastInput = <<"y">>
    /\ sentNow = <<FilteredRequest(Id1234, FALSE), ProductRequest(1)>>
    /\ msg = "none"
    /\ data_entries = RecordsOf(<<590102>>)
    /\ latest_entry = [obsid |-> 1, t_min |-> 590102]
    /\ obsProducts = ps
    /\ th = <<>>
    /\ preexisting = {}
    /\ report = NoReport
    /\ dirs = tree.dirs
    /\ files = tree.files

InitSize ==
    /\ pc = "SizeStart"
    /\ download_size = Big(0, 0)
    /\ n = 0
    /\ size_line = NoSizeLine
    /\ \E ps \in SizeProductLists : AtProducts(ps, NoTree)

SizeFrame ==
    UNCHANGED <<depth, propid, count, lastPrompt, lastInput, sentNow,
                data_entries, latest_entry, obsProducts, th, dirs, files,
                preexisting, report>>

\* lines 246-251
SizeTotal ==
    /\ pc = "SizeStart"
    /\ download_size' = DivThousand(SumSizes(obsProducts))
    /\ n' = 0
    /\ pc' = "SizeLoop"
    /\ UNCHANGED <<msg, size_line>>
    /\ SizeFrame

\* lines 252-254, one iteration
SizeLoop ==
    /\ pc = "SizeLoop"
    /\ LoopContinues(download_size)
    /\ download_size' = DivThousand(download_size)
    /\ n' = n + 1
    /\ UNCHANGED <<pc, msg, size_line>>
    /\ SizeFrame

\* lines 256-270
SizeLabel ==
    /\ pc = "SizeLoop"
    /\ ~LoopContinues(download_size)
    /\ \/ /\ SizeOverflow(n)
          /\ msg' = "too_large"
          /\ pc' = "SizeOverflow"
          /\ UNCHANGED size_line
       \/ /\ ~SizeOverflow(n)
          /\ size_line' = [value |-> download_size, unit |-> UnitLabel(n)]
          /\ pc' = "SizeShown"
          /\ UNCHANGED msg
    /\ UNCHANGED <<download_size, n>>
    /\ SizeFrame

NextSize == SizeTotal \/ SizeLoop \/ SizeLabel

\* the reduction runs on the one control thread: a step that can be taken
\* is taken
FairSpecSize == InitSize /\ [][NextSize]_vars /\ WF_vars(NextSize)

(***************************************************************************)
(* The download engine on its own, from the download prompt, for every     *)
(* short products list over a few folders, file names and URIs.            *)
(***************************************************************************)
Folders == {<<"JWST", "o1">>, <<"JWST", "o2">>, <<"HST", "o1">>}

EngineRows ==
    {Row(f[1], f[2], name, uri, Big(0, 460000)) :
        f \in Folders, name \in {"f1", "f2"}, uri \in {"u1", "u2"}}

EngineProductLists == Seqs(EngineRows, MaxRows)

BothTree ==
    [dirs |-> {<<"JWST", "o1">>, <<"JWST", "o2">>},
     files |-> [p \in {<<"JWST", "o1", "f1">>} |-> "old"]]

EngineTrees == {NoTree, UsedTree, BothTree}

InitDownload ==
    /\ pc = "AwaitingDownloadConfirm"
    /\ \E ps \in EngineProductLists :
        /\ download_size = Reduce(SumSizes(ps)).value
        /\ n = Reduce(SumSizes(ps)).n
        /\ size_line = [value |-> Reduce(SumSizes(ps)).value,
                        unit |-> UnitLabel(Reduce(SumSizes(ps)).n)]
        /\ \E tree \in EngineTrees : AtProducts(ps, tree)

EngineDownload == DownloadAnswered(Answers)

EngineWorkerOpen == \E w \in 1..MaxRows : WorkerOpens(w, AllFaults)

EngineWorkerWrite == \E w \in 1..MaxRows : WorkerWrites(w, AllFaults)

NextDownload ==
    \/ EngineDownload
    \/ EngineWorkerOpen
    \/ EngineWorkerWrite
    \/ Joined

SpecDownload == InitDownload /\ [][NextDownload]_vars

(***************************************************************************)
(* The end-to-end scenario of the specification: proposal 1234, a count    *)
(* of 3, three rows in any order, five products of 460000 bytes, every     *)
(* prompt confirmed, no failing worker, nothing on disk beforehand.        *)
(***************************************************************************)
E2ERecords ==
    {[obsid |-> 1, t_min |-> None], [obsid |-> 2, t_min |-> 590005],
     [obsid |-> 3, t_min |-> 590102]}

E2ERecordLists ==
    {rs \in [1..3 -> E2ERecords] : \A i, j \in 1..3 : rs[i] = rs[j] => i = j}

E2ENames == <<"f1", "f2", "f3", "f4", "f5">>

E2EUris == <<"u1", "u2", "u3", "u4", "u5">>

E2EProducts ==
    [i \in 1..5 |-> Row("JWST", "o1", E2ENames[i], E2EUris[i], Big(0, 460000))]

InitE2E == InitSession({NoTree})

E2EEnterProposalId == ProposalIdEntered("AwaitingProposalId", {Id1234}, {3})

E2EAnswerInspect == InspectAnswered({<<"y">>}, E2ERecordLists, {E2EProducts})

E2EAnswerDownload == DownloadAnswered({<<"y">>})

E2EWorkerOpen == \E w \in 1..5 : WorkerOpens(w, {})

E2EWorkerWrite == \E w \in 1..5 : WorkerWrites(w, {})

E2EAnswerRepeat == RepeatAnswered({<<"n">>})

NextE2E ==
    \/ E2EEnterProposalId
    \/ E2EAnswerInspect
    \/ E2EAnswerDownload
    \/ E2EWorkerOpen
    \/ E2EWorkerWrite
    \/ Joined
    \/ E2EAnswerRepeat

SpecE2E == InitE2E /\ [][NextE2E]_vars

(***************************************************************************)
(* Properties.                                                             *)
(***************************************************************************)
IdPrompts == {"AwaitingProposalId", "RetryPrompt"}

\* the texts of ProposalIds that are neither integers nor the quit sentinel
NonIntegerIds ==
    {<<>>, <<"a", "b", "c">>, <<"1", "2", "a">>, <<" ", "q">>,
     <<"1", "_", "_", "0">>, <<"-">>}

\* the operator has just confirmed the inspect prompt
InspectConfirmed ==
    lastPrompt = "AwaitingInspectConfirm" /\ Lower(lastInput) = <<"y">>

NonNullTimes(entries) ==
    {entries[i].t_min : i \in {j \in DOMAIN entries : entries[j].t_min # None}}

Greatest(S) == CHOOSE m \in S : \A x \in S : x <= m

IsFullQuery(r) == r.service = "Mast.Caom.Filtered" /\ r.columns = "*"

IsCountQuery(r) == r.service = "Mast.Caom.Filtered" /\ r.columns = "COUNT_BIG(*)"

IsProductsQuery(r) == r.service = "Mast.Caom.Products"

DistinctNames(ps) ==
    \A i, j \in DOMAIN ps :
        ps[i].productFilename = ps[j].productFilename => i = j

\* C1: whenever the rows of a full query hold at least one non-null start
\* time, the row selected as the latest observation, whose obsid goes into
\* the products request, has the greatest non-null start time of the rows.
C1_SelectsGreatestTime ==
    (/\ NonNullTimes(data_entries) # {}
     /\ \E i \in DOMAIN sentNow :
            IsProductsQuery(sentNow[i]) /\ sentNow[i].arg = <<latest_entry.obsid>>)
        => latest_entry.t_min = Greatest(NonNullTimes(data_entries))

\* C2: a row whose start time is null is never the row selected as the
\* latest observation.
C2_NullNeverSelected ==
    latest_entry.obsid # 0 => latest_entry.t_min # None

\* C3: in the end-to-end scenario, whatever the order of the three rows,
\* the session does not fault, the selected row is the one at 59010.2, the
\* size shown is "~2 MB" and the report after the join is 5 of 5 files.
C3_EndToEnd ==
    /\ pc # "Fault"
    /\ latest_entry.obsid # 0 => latest_entry = [obsid |-> 3, t_min |-> 590102]
    /\ pc = "AwaitingDownloadConfirm"
           => size_line = [value |-> Big(0, 2), unit |-> "MB"]
    /\ pc = "AwaitingRepeatConfirm"
           => report = [numfiles |-> 5, files_found |-> 5]

\* C4: no query request ever carries a proposal id that is not an integer
\* string, and when such an id (other than the quit sentinel) has been
\* entered at the initial or the retry prompt, nothing was sent, no fault
\* was raised and the operator is back at the proposal-id prompt.
C4_NonIntegerNeverQueried ==
    /\ \A i \in DOMAIN sentNow :
           sentNow[i].service = "Mast.Caom.Filtered"
               => sentNow[i].arg \notin NonIntegerIds
    /\ (lastPrompt \in IdPrompts /\ lastInput \in NonIntegerIds)
           => /\ pc = "AwaitingProposalId"
              /\ msg = "not_integer"
              /\ sentNow = <<>>
              /\ th = <<>>

C4_Witness ==
    /\ lastPrompt = "RetryPrompt"
    /\ lastInput = <<"1", "2", "a">>
    /\ pc = "AwaitingProposalId"
    /\ depth = 2

\* C5: a full query is sent only for the proposal id whose latest count is
\* in 1..50000 and only in answer to a confirmed inspect prompt; a count of
\* 0 or above 50000 leads to the retry prompt with nothing sent but the
\* count query and no download thread.
C5_FullQueryGuarded ==
    /\ \A i \in DOMAIN sentNow :
           IsFullQuery(sentNow[i])
               => /\ sentNow[i].arg = propid
                  /\ count >= 1
                  /\ count <= 50000
                  /\ InspectConfirmed
    /\ (lastPrompt \in IdPrompts /\ Len(sentNow) > 0
            /\ (count = 0 \/ count > 50000))
           => /\ pc = "RetryPrompt"
              /\ Len(sentNow) = 1
              /\ IsCountQuery(sentNow[1])
              /\ th = <<>>
    /\ (lastPrompt \in IdPrompts /\ Len(sentNow) > 0
            /\ count >= 1 /\ count <= 50000)
           => pc = "AwaitingInspectConfirm"

C5_Witness ==
    /\ count = 50000
    /\ Len(sentNow) > 0
    /\ IsFullQuery(sentNow[1])
    /\ propid = Id99999999

\* C6: when every row of a full-query response has a null start time (the
\* empty response included), the no-timing condition is signalled and the
\* session is back at the proposal-id prompt with no products query sent,
\* no download thread and no fault.
C6_NoTimingRestarts ==
    (InspectConfirmed /\ NonNullTimes(data_entries) = {})
        => /\ msg = "no_timing"
           /\ pc = "AwaitingProposalId"
           /\ Len(sentNow) = 1
           /\ IsFullQuery(sentNow[1])
           /\ obsProducts = <<>>
           /\ th = <<>>

C6_Witness ==
    /\ InspectConfirmed
    /\ Len(data_entries) = 2
    /\ NonNullTimes(data_entries) = {}
    /\ msg = "no_timing"
    /\ pc = "AwaitingProposalId"

\* 10^12 bytes
Tera == Big(Million, 0)

\* divisions by 1000 performed so far by the reduction
Divisions == IF pc = "SizeStart" THEN 0 ELSE n + 1

\* C7: the size reduction terminates for every total; for a total below
\* 10^12 it performs at most 3 divisions and signals no overflow, and for
\* a total of 10^12 or more it signals the overflow.
C7_SizeReduction ==
    /\ [](BigLess(SumSizes(obsProducts), Tera)
            => (Divisions <= 3 /\ pc # "SizeOverflow" /\ msg # "too_large"))
    /\ [](pc = "SizeShown" => BigLess(SumSizes(obsProducts), Tera))
    /\ <>(pc \in {"SizeShown", "SizeOverflow"})

C7_Witness ==
    /\ pc = "SizeOverflow"
    /\ SumSizes(obsProducts) = Tera
    /\ msg = "too_large"

\* C8: when the reduction of a products list took four or more divisions,
\* the overflow is reported and the session is back at the proposal-id
\* prompt: no size line, no download prompt, no download thread for that
\* list.
C8_OverflowAborts ==
    /\ (InspectConfirmed /\ Len(sentNow) = 2 /\ n + 1 >= 4)
           => /\ msg = "too_large"
              /\ pc = "AwaitingProposalId"
              /\ size_line = NoSizeLine
              /\ th = <<>>
    /\ msg = "too_large" => (pc = "AwaitingProposalId" /\ th = <<>>)
    /\ size_line.unit \in {"none", "kb", "MB", "GB"}

C8_Witness ==
    /\ msg = "too_large"
    /\ pc = "AwaitingProposalId"
    /\ Len(obsProducts) = 2
    /\ n = 3

\* the injected failures of the environment did not occur
NoInjectedFault == \A w \in DOMAIN th : th[w].exc \notin {"fetch", "open", "write"}

\* C9: for N >= 1 products with distinct file names, none of them on disk
\* beforehand and no failure of a fetch, after the join exactly N new
\* files exist, and the returned count is N when the destination directory
\* was empty beforehand.
C9_AllFilesArrive ==
    (/\ pc = "AwaitingRepeatConfirm"
     /\ report # NoReport
     /\ DistinctNames(obsProducts)
     /\ \A w \in DOMAIN obsProducts : OutFile(obsProducts[w]) \notin preexisting
     /\ NoInjectedFault)
        => /\ Cardinality((DOMAIN files) \ preexisting) = Len(obsProducts)
           /\ ListDir(OutDir(obsProducts[1]), preexisting) = {}
                  => report.numfiles = Len(obsProducts)

\* C10: for N products with distinct file names going to one initially
\* empty directory, when the write of exactly one file fails (at the open
\* or during the write) and all others succeed, the returned count is N-1
\* and the ERROR line is printed for the failing file.
C10_WriteFailureReported ==
    \A w \in DOMAIN th :
        (/\ pc = "AwaitingRepeatConfirm"
         /\ report # NoReport
         /\ DistinctNames(obsProducts)
         /\ \A v \in DOMAIN obsProducts :
                OutDir(obsProducts[v]) = OutDir(obsProducts[1])
         /\ ListDir(OutDir(obsProducts[1]), preexisting) = {}
         /\ th[w].exc \in {"open", "write"}
         /\ \A v \in (DOMAIN th) \ {w} : th[v].line = "COMPLETE")
            => /\ report.numfiles = Len(obsProducts) - 1
               /\ th[w].line = "ERROR"

\* a thread that has terminated, by returning or by an exception
Terminal(t) == t.at \in {"ended", "raised"}

\* C11: a worker that failed stops no sibling and does not abort the cycle:
\* every sibling not yet terminated can still take its next step, the join
\* goes through once all workers have terminated, and the session then
\* stands at the repeat prompt with the completed/requested report.
C11_FailureIsContained ==
    /\ (pc = "Downloading" /\ \E v \in DOMAIN th : th[v].at = "raised")
           => /\ \A w \in DOMAIN th :
                     th[w].at = "started" => ENABLED WorkerOpens(w, AllFaults)
              /\ \A w \in DOMAIN th :
                     th[w].at = "opened" => ENABLED WorkerWrites(w, AllFaults)
              /\ (\A w \in DOMAIN th : Terminal(th[w])) => ENABLED Joined
    /\ (msg = "downloaded" /\ \E v \in DOMAIN th : th[v].at = "raised")
           => /\ pc = "AwaitingRepeatConfirm"
              /\ report.files_found = Len(obsProducts)
              /\ report.numfiles >= 0
              /\ \A w \in DOMAIN th : Terminal(th[w])

C11_Witness ==
    /\ pc = "AwaitingRepeatConfirm"
    /\ msg = "downloaded"
    /\ Len(th) = 2
    /\ th[1].exc = "write"
    /\ th[2].line = "COMPLETE"
    /\ report.numfiles >= 1

\* C12: one worker is started per product, all of them when the download
\* is confirmed, and the session leaves the download only after every
\* worker has terminated: outside the download no worker is running.
C12_JoinBarrier ==
    /\ pc = "Downloading"
           => (DOMAIN th = DOMAIN obsProducts /\ Len(obsProducts) >= 1)
    /\ pc # "Downloading" => \A w \in DOMAIN th : Terminal(th[w])
    /\ report # NoReport => \A w \in DOMAIN th : Terminal(th[w])

C12_Witness ==
    /\ pc = "AwaitingRepeatConfirm"
    /\ Len(th) = 2
    /\ th[1].line = "COMPLETE"
    /\ th[2].line = "COMPLETE"
    /\ report = [numfiles |-> 2, files_found |-> 2]

\* C13: once the download prompt is answered the session is never in a
\* fault: a declined download is at the repeat prompt at once with no
\* request sent and no report, a confirmed one is downloading or, with the
\* report made, at the repeat prompt; this for every products list, the
\* empty one included.
C13_ReachesRepeatPrompt ==
    lastPrompt = "AwaitingDownloadConfirm"
        => /\ pc \in {"Downloading", "AwaitingRepeatConfirm"}
           /\ ~IsYes(lastInput)
                  => (pc = "AwaitingRepeatConfirm" /\ sentNow = <<>>
                          /\ th = <<>> /\ report = NoReport)
           /\ (IsYes(lastInput) /\ pc = "AwaitingRepeatConfirm")
                  => report # NoReport

\* C14: the session is never in a fault, and every state other than
\* Terminated in which a further activation is still allowed has a
\* successor.
C14_OnlyTerminatedIsTerminal ==
    /\ pc # "Fault"
    /\ (pc # "Terminated" /\ depth < MaxDepth) => ENABLED Next

\* the positions of the rows holding the greatest non-null start time
AtGreatest(entries) ==
    {i \in DOMAIN entries : entries[i].t_min = Greatest(NonNullTimes(entries))}

\* C15: when two or more rows of the full query share the greatest
\* non-null start time, the row selected is the first of them in the order
\* of the list, wherever rows with a null start time stand.
C15_TieTakesFirst ==
    (/\ InspectConfirmed
     /\ NonNullTimes(data_entries) # {}
     /\ Cardinality(AtGreatest(data_entries)) >= 2
     /\ latest_entry.obsid # 0)
        => \E i \in AtGreatest(data_entries) :
               /\ latest_entry = data_entries[i]
               /\ \A j \in AtGreatest(data_entries) : i <= j

\* the entries of the first row's directory among the given paths
InFirstFolder(paths) ==
    {p \in paths : /\ p[1] = obsProducts[1].obs_collection
                   /\ p[2] = obsProducts[1].obs_id}

\* C16: the count reported after the join is the number of entries of the
\* destination directory, read when every thread has terminated; entries
\* that were there before the download are part of it.
C16_CountIsDirectoryListing ==
    report # NoReport
        => /\ \A w \in DOMAIN th : Terminal(th[w])
           /\ report.numfiles = Cardinality(InFirstFolder(DOMAIN files))
           /\ report.numfiles >= Cardinality(InFirstFolder(preexisting))

C16_Witness ==
    /\ pc = "AwaitingRepeatConfirm"
    /\ InFirstFolder(preexisting) # {}
    /\ report.files_found = 1
    /\ report.numfiles = 2
    /\ th[1].line = "COMPLETE"

\* C17: for every product handed to the engine, the directory made of its
\* own collection and observation folder exists while its thread runs, no
\* thread fails for a missing directory, and a thread that has opened its
\* output file has it at collection/folder/file-name.
C17_OwnDirectoryExists ==
    /\ pc = "Downloading"
           => \A w \in DOMAIN obsProducts : OutDir(obsProducts[w]) \in dirs
    /\ \A w \in DOMAIN th : th[w].exc # "nodir"
    /\ \A w \in DOMAIN th :
           th[w].at = "opened" => OutFile(obsProducts[w]) \in DOMAIN files

\* C18: no step of the session adds a pending activation of
\* start_proposal_id_check: a restart of the cycle leaves the number of
\* unreturned activations as it was.
C18_StackDoesNotGrow == [][depth' <= depth]_vars

\* root/collection/observation-folder/file-name of a products row
PathOf(row) == <<row.obs_collection, row.obs_id, row.productFilename>>

\* the response bodies of the rows whose file goes to path
BodiesFor(path) ==
    {obsProducts[v].dataURI :
        v \in {u \in DOMAIN obsProducts : PathOf(obsProducts[u]) = path}}

\* a thread that has its output file open finds it as its own open left
\* it, and after the join the file of every thread that printed COMPLETE
\* holds the whole body of one product going to that path
WritesAlone ==
    /\ \A w \in DOMAIN th :
           th[w].at = "opened"
               => /\ PathOf(obsProducts[w]) \in DOMAIN files
                  /\ files[PathOf(obsProducts[w])] = "empty"
    /\ \A w \in DOMAIN th :
           (pc = "AwaitingRepeatConfirm" /\ th[w].line = "COMPLETE")
               => /\ PathOf(obsProducts[w]) \in DOMAIN files
                  /\ files[PathOf(obsProducts[w])]
                         \in BodiesFor(PathOf(obsProducts[w]))

DistinctTriples(ps) ==
    \A i, j \in DOMAIN ps : PathOf(ps[i]) = PathOf(ps[j]) => i = j

\* C19 as stated: for every products list, rows with the same (collection,
\* observation-folder, file name) included, no two running threads write
\* one path and every downloaded file holds the body of one product.
C19_NoSharedPath == WritesAlone

\* C19: for every products list whose (collection, observation-folder,
\* file name) triples are pairwise distinct, no two running threads write
\* one path and after the join every downloaded file holds the whole body
\* of its own product.
C19_NoSharedPathWhenDistinct == DistinctTriples(obsProducts) => WritesAlone

C19_Witness ==
    /\ pc = "AwaitingRepeatConfirm" /\ Len(th) = 2
    /\ DistinctTriples(obsProducts)
    /\ OutDir(obsProducts[1]) = OutDir(obsProducts[2])
    /\ th[1].line = "COMPLETE" /\ th[2].line = "COMPLETE"
    /\ files[PathOf(obsProducts[1])] = obsProducts[1].dataURI
    /\ files[PathOf(obsProducts[2])] = obsProducts[2].dataURI

\* the smallest k for which floor(t / 1000^k) has at most three digits,
\* for t below 10^12
SmallestK(t) ==
    IF t.hi = 0 /\ t.lo < 1000 THEN 0
    ELSE IF t.hi = 0 THEN 1
    ELSE IF t.hi < 1000 THEN 2
    ELSE 3

\* floor(t / 1000^k) for the k above, or for k = 1 when t is below 1000
Quotient(t, k) ==
    CASE k = 0 -> t.lo
      [] k = 1 -> t.lo \div 1000
      [] k = 2 -> t.hi
      [] OTHER -> t.hi \div 1000

LabelOf(k) ==
    CASE k = 1 -> "kb"
      [] k = 2 -> "MB"
      [] k = 3 -> "GB"
      [] OTHER -> "none"

\* the size line for the total of the products is the one of k divisions
ShownWith(k) ==
    /\ Divisions = k
    /\ size_line.value = Big(0, Quotient(SumSizes(obsProducts), k))
    /\ k >= 1 => size_line.unit = LabelOf(k)

\* C20 as stated: for every total below 10^12 the size shown is
\* floor(total / 1000^k) for the smallest k that leaves at most three
\* digits, totals of at most three digits not being divided, with the
\* labels kb, MB, GB for 1, 2, 3 divisions.
C20_SmallestDivisions ==
    (pc = "SizeShown" /\ BigLess(SumSizes(obsProducts), Tera))
        => ShownWith(SmallestK(SumSizes(obsProducts)))

\* C20: for every total below 10^12 the size shown is
\* floor(total / 1000^k) with the label of k, where k is the smallest
\* number of divisions, at least one, that leaves at most three digits;
\* the labels for 1, 2, 3 divisions are kb, MB, GB.
C20_AtLeastOneDivision ==
    (pc = "SizeShown" /\ BigLess(SumSizes(obsProducts), Tera))
        => LET k == SmallestK(SumSizes(obsProducts)) IN
           ShownWith(IF k = 0 THEN 1 ELSE k)

C20_Witness ==
    /\ pc = "SizeShown"
    /\ SumSizes(obsProducts) = Big(0, 999)
    /\ n = 0
    /\ size_line = [value |-> Big(0, 0), unit |-> "kb"]
====
